---------------------------- MODULE Spec2Model ----------------------------
(***************************************************************************)
(* study.ai: the credential pool with fail-over (server.py, LLMFallback),  *)
(* one call at a time and with several in flight; the hybrid retrieval     *)
(* function (retrieve_context in server.py and app.py); the SM-2 flashcard *)
(* review (server.py, api_review_flashcard), the app's flashcard save and  *)
(* review (app.py); and the parsing of structured model output.            *)
(*                                                                         *)
(* Python positions are kept 0-based as in the source; a TLA+ sequence     *)
(* that models a Python list l is read as l[i + 1].                        *)
(***************************************************************************)
EXTENDS Integers, Sequences, FiniteSets, TLC

VARIABLES
    \* ---- LLMFallback (server.py) ----
    api_keys,       \* self.api_keys
    model_pool,     \* self.model_pool: sequence of [key, model]
    current_index,  \* self.current_index
    active_key,     \* the key genai.configure() set last (global SDK state)
    pc,             \* position of the generation request in flight
    kind,           \* which service request issued the generation
    health,         \* how each pool position answers during this request
    start,          \* current_index when the call began
    attempt,        \* loop variable of generate_content_async
    idx,            \* local idx of the attempt in progress
    last_error,     \* local last_error
    log,            \* the underlying generate_content invocations, in order
    result,         \* what the call returned or raised
    \* ---- retrieve_context (server.py, app.py) ----
    index,          \* the FAISS index: None, or its number of vectors
    chunks,         \* the chunk metadata list loaded beside it
    rpc,            \* position of the retrieval request
    rq,             \* the arguments and environment of the retrieval
    ret,            \* what retrieve_context returned or raised
    \* ---- flashcards (server.py) ----
    flashcard_file, \* flashcards.json: whether it exists, and its list
    now,            \* the day datetime.now() falls on
    reviews,        \* review requests handled so far
    last_review,    \* the last review request and the list it loaded
    saves,          \* Generate requests of the app that reached the save
    last_save,      \* the last of them: the batch and the list it loaded
    \* ---- structured generation (server.py, quiz_engine.py, visual_engine.py) ----
    gen,            \* the last structured-generation request and its outcome
    \* ---- requests in flight at the same time ----
    pool_calls,     \* the generate calls in flight on the shared pool
    workers         \* the flashcard reviews in flight on flashcards.json

llmVars == <<api_keys, model_pool, current_index, active_key, pc, kind, health,
             start, attempt, idx, last_error, log, result>>

retVars == <<index, chunks, rpc, rq, ret>>

cardVars == <<flashcard_file, now, reviews, last_review, saves, last_save>>

genVars == <<gen>>

concVars == <<pool_calls, workers>>

vars == <<llmVars, retVars, cardVars, genVars, concVars>>

None == [none |-> TRUE]

-----------------------------------------------------------------------------
(* Bounds *)

MaxKeys == 3
\* keys configured in the runs where model initialisation may fail
MaxKeysSkipping == 2
MaxTopK == 3
MaxVectors == 4
MaxReviews == 3
MaxSaves == 2
MaxBatch == 2
MaxTokens == 5
MaxCalls == 2
MaxInvocations == 4
MaxWorkers == 2

-----------------------------------------------------------------------------
(* Error texts.  An error message is a sequence of words; `x in error_msg` *)
(* is modelled at word granularity.                                        *)

E429 == <<"429", "Resource", "EXHAUSTED">>
EQuota == <<"Quota", "exceeded">>
E503 == <<"503", "Service", "Unavailable">>
EInvalid == <<"400", "Invalid", "argument">>

ErrorTexts == {E429, EQuota, E503, EInvalid}

Ok == [ok |-> TRUE, text |-> <<>>]
Fail(text) == [ok |-> FALSE, text |-> text]
Outcomes == {Ok} \cup {Fail(t) : t \in ErrorTexts}

\* str.lower() on the words that occur in the error texts
Lower(w) ==
    CASE w = "Resource" -> "resource"
      [] w = "EXHAUSTED" -> "exhausted"
      [] w = "Quota" -> "quota"
      [] w = "Service" -> "service"
      [] w = "Unavailable" -> "unavailable"
      [] w = "Invalid" -> "invalid"
      [] OTHER -> w

LowerText(msg) == [i \in DOMAIN msg |-> Lower(msg[i])]

Contains(msg, x) == \E i \in DOMAIN msg : msg[i] = x

\* is_quota = any(x in error_msg.lower() for x in ["429", "quota", "exhausted"])
IsQuota(msg) == \E x \in {"429", "quota", "exhausted"} : Contains(LowerText(msg), x)

\* is_server = any(x in error_msg for x in ["500", "503", "504"])
IsServer(msg) == \E x \in {"500", "503", "504"} : Contains(msg, x)

AlwaysTransient(msg) == TRUE

\* if is_quota or is_server: continue  else: raise
IsTransient(msg) == IsQuota(msg) \/ IsServer(msg)

-----------------------------------------------------------------------------
(* LLMFallback.__init__ *)

\* load_api_keys(): the primary key, then GEMINI_API_KEY_2, _3, ... in order
LoadApiKeys(n) == [i \in 1..n |-> "KEY_" \o ToString(i)]

RECURSIVE BuildPool(_, _)
\* for key in api_keys: try: append {"key": key, "model": m}  except: skip;
\* failedInit holds the positions whose GenerativeModel() raised.
BuildPool(keys, failedInit) ==
    IF keys = <<>> THEN <<>>
    ELSE LET n == Len(keys)
             front == BuildPool(SubSeq(keys, 1, n - 1), failedInit)
         IN  IF (n - 1) \in failedInit THEN front
             ELSE Append(front, [key |-> keys[n], model |-> n - 1])

NumKeys == Len(api_keys)

Positions == 0..(NumKeys - 1)

-----------------------------------------------------------------------------
(* LLMFallback.generate_content_async *)

RotationFromZero(ci, a, n) == a % n

RotationNoWrap(ci, a, n) == IF ci + a < n THEN ci + a ELSE n - 1

\* idx = (self.current_index + attempt) % len(self.api_keys)
Rotation(ci, a, n) == (ci + a) % n

KeepFirstError(prev, e) == IF prev = None THEN e ELSE prev

\* last_error = e
RecordError(prev, e) == e

NoResult == [kind |-> "none", from |-> -1, err |-> <<>>, n |-> 0]
Returned(i) == [kind |-> "ok", from |-> i, err |-> <<>>, n |-> 0]
Raised(text) == [kind |-> "raised", from |-> -1, err |-> text, n |-> 0]
IndexErr == [kind |-> "index_error", from |-> -1, err |-> <<>>, n |-> 0]
\* Exception(f"All {len(self.api_keys)} API keys failed. Last error: {last_error}")
Exhausted(n, last) ==
    [kind |-> "exhausted", from |-> -1,
     err |-> IF last = None THEN <<"None">> ELSE last.text, n |-> n]

AsyncKinds == {"query", "eli5", "flashcards", "gap_analysis", "hyde"}
SyncKinds == {"quiz", "mindmap"}

\* A service request starts a generate_content_async call: last_error = None,
\* and the for loop is entered.
BeginAsync(k, h) ==
    /\ pc = "idle"
    /\ k \in AsyncKinds
    /\ h \in [Positions -> Outcomes]
    /\ kind' = k
    /\ health' = h
    /\ start' = current_index
    /\ attempt' = 0
    /\ idx' = -1
    /\ last_error' = None
    /\ log' = <<>>
    /\ result' = NoResult
    /\ pc' = "loop"
    /\ UNCHANGED <<api_keys, model_pool, current_index, active_key>>
    /\ UNCHANGED <<retVars, cardVars, genVars, concVars>>

\* One pass of the loop head up to the await: idx, model_info, genai.configure.
\* range(len(self.api_keys)) exhausted: fall out of the loop and raise.
Activate ==
    /\ pc = "loop"
    /\ attempt < NumKeys
    /\ LET i == Rotation(current_index, attempt, NumKeys)
       IN  IF i + 1 \in DOMAIN model_pool
           THEN /\ idx' = i
                /\ active_key' = model_pool[i + 1].key
                /\ pc' = "invoke"
                /\ UNCHANGED result
           ELSE \* model_pool[idx] is outside the try block
                /\ idx' = i
                /\ result' = IndexErr
                /\ pc' = "done"
                /\ UNCHANGED active_key
    /\ UNCHANGED <<api_keys, model_pool, current_index, kind, health, start,
                   attempt, last_error, log>>
    /\ UNCHANGED <<retVars, cardVars, genVars, concVars>>

StickyNever(ci, i) == ci

\* if idx != self.current_index: self.current_index = idx
Sticky(ci, i) == IF i # ci THEN i ELSE ci

\* The awaited model_info["model"].generate_content(...) comes back.
Complete ==
    /\ pc = "invoke"
    /\ LET out == health[idx]
       IN  /\ log' = Append(log, [idx |-> idx, key |-> active_key, out |-> out])
           /\ IF out.ok
              THEN /\ current_index' = Sticky(current_index, idx)
                   /\ result' = Returned(idx)
                   /\ pc' = "done"
                   /\ UNCHANGED <<attempt, last_error>>
              ELSE /\ last_error' = RecordError(last_error, out)
                   /\ IF IsTransient(out.text)
                      THEN /\ attempt' = attempt + 1
                           /\ pc' = "loop"
                           /\ UNCHANGED result
                      ELSE /\ result' = Raised(out.text)
                           /\ pc' = "done"
                           /\ UNCHANGED attempt
                   /\ UNCHANGED current_index
    /\ UNCHANGED <<api_keys, model_pool, active_key, kind, health, start, idx>>
    /\ UNCHANGED <<retVars, cardVars, genVars, concVars>>

\* After the loop: raise Exception(msg)
Exhaust ==
    /\ pc = "loop"
    /\ attempt >= NumKeys
    /\ result' = Exhausted(NumKeys, last_error)
    /\ pc' = "done"
    /\ UNCHANGED <<api_keys, model_pool, current_index, active_key, kind, health,
                   start, attempt, idx, last_error, log>>
    /\ UNCHANGED <<retVars, cardVars, genVars, concVars>>

-----------------------------------------------------------------------------
(* LLMFallback.generate_content: the sync wrapper the engines call *)

GenerateContent(k, h) ==
    /\ pc = "idle"
    /\ k \in SyncKinds
    /\ h \in [Positions -> Outcomes]
    /\ kind' = k
    /\ health' = h
    /\ start' = current_index
    /\ attempt' = 0
    /\ last_error' = None
    /\ idx' = current_index
    /\ IF current_index + 1 \in DOMAIN model_pool
       THEN /\ active_key' = model_pool[current_index + 1].key
            /\ log' = <<[idx |-> current_index,
                         key |-> model_pool[current_index + 1].key,
                         out |-> h[current_index]]>>
            /\ result' = IF h[current_index].ok THEN Returned(current_index)
                         ELSE Raised(h[current_index].text)
       ELSE /\ result' = IndexErr
            /\ log' = <<>>
            /\ UNCHANGED active_key
    /\ pc' = "done"
    /\ UNCHANGED <<api_keys, model_pool, current_index>>
    /\ UNCHANGED <<retVars, cardVars, genVars, concVars>>

\* What the HTTP caller of the endpoint gets for the generation step.
\*   api_query, api_eli5, api_flashcards_gen, api_gap_analysis, api_quiz:
\*       except Exception -> HTTPException(500);  HyDE: the error leaves
\*       retrieve_context and the endpoint;
\*   generate_mind_map: except Exception -> the "Check API Key" placeholder.
CallerSees(k, r) ==
    IF r.kind = "ok" THEN "success"
    ELSE IF k = "mindmap" THEN "error_placeholder"
    ELSE "http_500"

\* The response is sent; the next request may start.
\* The call's locals go out of scope.
Finish ==
    /\ pc = "done"
    /\ pc' = "idle"
    /\ kind' = "none"
    /\ health' = [p \in Positions |-> Ok]
    /\ start' = 0
    /\ attempt' = 0
    /\ idx' = -1
    /\ last_error' = None
    /\ log' = <<>>
    /\ result' = NoResult
    /\ UNCHANGED <<api_keys, model_pool, current_index, active_key>>
    /\ UNCHANGED <<retVars, cardVars, genVars, concVars>>

-----------------------------------------------------------------------------
(* Python values *)

\* An int and the str of its decimal digits are different dict keys.
PyInt(i) == [t |-> "int", v |-> ToString(i)]
PyStr(s) == [t |-> "str", v |-> s]
\* str(sid)
Str(i) == PyStr(ToString(i))

EmptyDict == [k \in {} |-> ""]

Min(a, b) == IF a < b THEN a ELSE b

\* seq[:n] for n >= 0
Take(seq, n) == SubSeq(seq, 1, Min(n, Len(seq)))

Range(f) == {f[x] : x \in DOMAIN f}

-----------------------------------------------------------------------------
(* The index and the chunk list (server.py 154-164, app.py 91-100) *)

\* metadata.json as chunker.py writes it, and one record of an older layout
\* that carries "source" instead of "metadata".
Corpus ==
    << [id |-> "unit1_0", text |-> "T0", metadata |-> [source_file |-> "unit1.txt"]],
       [id |-> "unit2_0", text |-> "T1", metadata |-> [source_file |-> "unit2.txt"]],
       [id |-> "old_0", text |-> "T2", source |-> "slides.pptx"] >>

Queries == {"Q1", "Q2"}

\* top_k: int = 6 (QueryRequest, both retrieve_context signatures)
DefaultTopK == 6
TopKs == 0..MaxTopK \cup {DefaultTopK}
HydeText == "H"

\* Cross-encoder scores, in tenths.
ScoreValues == {2, 5, 9}

\* hyde_prompt = f"Write a short, theoretical paragraph answering this question: {query}"
HydePrompt(q) == <<"Write a short, theoretical paragraph answering this question: ", q>>

RECURSIVE Arrangements(_, _)
\* The sequences of m distinct elements of S.
Arrangements(S, m) ==
    IF m = 0 THEN {<<>>}
    ELSE UNION {{Append(a, x) : x \in S \ Range(a)} : a \in Arrangements(S, m - 1)}

\* index.search(vec, k)[1][0]: the ids of the min(k, ntotal) nearest vectors,
\* nearest first, then -1 up to length k.
SearchResults(ntotal, k) ==
    LET m == Min(k, ntotal)
    IN  {a \o [i \in 1..(k - m) |-> -1] : a \in Arrangements(0..(ntotal - 1), m)}

-----------------------------------------------------------------------------
(* retrieve_context *)

NeverAbsent(ix) == FALSE

\* if index is None: return "", {}, []
IndexAbsent(ix) == ix = None

\* app.py: fetch_k = top_k * 3 if use_rerank else top_k
AppFetchK(top_k, use_rerank) == IF use_rerank THEN top_k * 3 ELSE top_k

FetchKTimesThree(top_k, use_rerank) == IF use_rerank THEN top_k * 3 ELSE top_k

\* server.py: fetch_k = top_k * 2 if use_rerank else top_k
ServerFetchK(top_k, use_rerank) == IF use_rerank THEN top_k * 2 ELSE top_k

\* l[i] on a Python list: the position read, or -1 for an IndexError
PyListPos(n, i) ==
    IF i >= 0 /\ i < n THEN i
    ELSE IF i < 0 /\ i >= -n THEN n + i
    ELSE -1

RECURSIVE ServerCandidates(_, _)
\* server.py: for idx in idxs[0]: if idx != -1 and idx < len(chunks): append
\* A candidate is kept as the position of its chunk.
ServerCandidates(nb, n) ==
    IF nb = <<>> THEN <<>>
    ELSE LET i == Head(nb)
             rest == ServerCandidates(Tail(nb), n)
         IN  IF i # -1 /\ i < n THEN <<PyListPos(n, i)>> \o rest ELSE rest

RECURSIVE AppCandidates(_, _)
\* app.py: for idx in idxs[0]: if idx != -1: candidates.append(chunks[idx])
\* An entry -1 in the result marks the IndexError of chunks[idx].
AppCandidates(nb, n) ==
    IF nb = <<>> THEN <<>>
    ELSE LET i == Head(nb)
             rest == AppCandidates(Tail(nb), n)
         IN  IF i # -1 THEN <<PyListPos(n, i)>> \o rest ELSE rest

RECURSIVE InsertTiesFirst(_, _)
InsertTiesFirst(sorted, p) ==
    IF sorted = <<>> THEN <<p>>
    ELSE IF Head(sorted)[1] > p[1]
         THEN <<Head(sorted)>> \o InsertTiesFirst(Tail(sorted), p)
         ELSE <<p>> \o sorted

RECURSIVE InsertDesc(_, _)
\* Place p behind every pair whose score is >= p's: the order
\* sorted(..., key=lambda x: x[0], reverse=True) gives, which is stable.
InsertDesc(sorted, p) ==
    IF sorted = <<>> THEN <<p>>
    ELSE IF Head(sorted)[1] >= p[1]
         THEN <<Head(sorted)>> \o InsertDesc(Tail(sorted), p)
         ELSE <<p>> \o sorted

RECURSIVE SortedDesc(_)
\* sorted(zip(scores, candidates), key=lambda x: x[0], reverse=True)
SortedDesc(pairs) ==
    IF pairs = <<>> THEN <<>>
    ELSE InsertDesc(SortedDesc(SubSeq(pairs, 1, Len(pairs) - 1)), pairs[Len(pairs)])

\* if use_rerank and candidates: score, sort, candidates = scored[:top_k]
Rerank(cands, top_k, use_rerank, sc) ==
    IF use_rerank /\ cands # <<>>
    THEN LET pairs == [i \in DOMAIN cands |-> <<sc[chunks[cands[i] + 1].text], cands[i]>>]
             scored == Take(SortedDesc(pairs), top_k)
         IN  [i \in DOMAIN scored |-> scored[i][2]]
    ELSE cands

\* c.get("metadata", {}).get("source_file", c.get("source", "Unknown"))
SourceFile(c) ==
    LET dflt == IF "source" \in DOMAIN c THEN c.source ELSE "Unknown"
    IN  IF "metadata" \in DOMAIN c /\ "source_file" \in DOMAIN c.metadata
        THEN c.metadata.source_file
        ELSE dflt

\* f"SOURCE [{sid}]: {c['text']}"
Block(sid, text) == <<"SOURCE [", ToString(sid), "]: ", text>>

RECURSIVE Join(_, _)
\* sep.join(blocks), a string being the sequence of its pieces
Join(blocks, sep) ==
    IF blocks = <<>> THEN <<>>
    ELSE IF Len(blocks) = 1 THEN blocks[1]
    ELSE blocks[1] \o <<sep>> \o Join(Tail(blocks), sep)

\* "\n\n".join(labeled_ctx)
LabeledContext(final) ==
    Join([i \in DOMAIN final |-> Block(i, chunks[final[i] + 1].text)], "\n\n")

\* raw_data.append({"id": sid, "file": fname, "text": c["text"]})
RawData(final) ==
    [i \in DOMAIN final |->
        [id |-> i, file |-> SourceFile(chunks[final[i] + 1]),
         text |-> chunks[final[i] + 1].text]]

\* server.py: source_map[str(sid)] = fname
ServerSourceMap(final) ==
    [k \in {Str(i) : i \in DOMAIN final} |->
        SourceFile(chunks[final[CHOOSE i \in DOMAIN final : Str(i) = k] + 1])]

\* app.py: source_map[sid] = fname
AppSourceMap(final) ==
    [k \in {PyInt(i) : i \in DOMAIN final} |->
        SourceFile(chunks[final[CHOOSE i \in DOMAIN final : PyInt(i) = k] + 1])]

GenCall(prompt) == [op |-> "generate", text |-> prompt, k |-> 0]
EmbedCall(text) == [op |-> "embed", text |-> <<text>>, k |-> 0]
SearchCall(k) == [op |-> "search", text |-> <<>>, k |-> k]
RerankCall(q, n) == [op |-> "rerank", text |-> <<q>>, k |-> n]

NoRetrieval ==
    [status |-> "none", ctx |-> <<>>, source_map |-> EmptyDict, raw |-> <<>>,
     calls |-> <<>>, cands |-> <<>>, final |-> <<>>]
Failed(why, calls) ==
    [status |-> why, ctx |-> <<>>, source_map |-> EmptyDict, raw |-> <<>>,
     calls |-> calls, cands |-> <<>>, final |-> <<>>]

SearchQueryRaw(q, use_hyde, hout) == q

\* search_query = query; if use_hyde: search_query = <generated>.text
SearchQuery(q, use_hyde, hout) == IF use_hyde THEN hout.text[1] ELSE q

\* The calls up to and including index.search, shared by both files:
\* the optional HyDE generation, embedder.encode([search_query]), index.search.
CallsToSearch(q, use_hyde, hout, fetch_k) ==
    (IF use_hyde THEN <<GenCall(HydePrompt(q))>> ELSE <<>>)
    \o <<EmbedCall(SearchQuery(q, use_hyde, hout)), SearchCall(fetch_k)>>

\* server.py retrieve_context.  hout: how the HyDE generation ends; nb: the
\* row index.search returns; sc: the cross-encoder's score of each text.
ServerRetrieveContext(q, top_k, use_hyde, use_rerank, hout, nb, sc) ==
    IF IndexAbsent(index) THEN
        [NoRetrieval EXCEPT !.status = "ok"]
    ELSE IF use_hyde /\ ~hout.ok THEN
        Failed("generation_error", <<GenCall(HydePrompt(q))>>)
    ELSE
        LET fetch_k == ServerFetchK(top_k, use_rerank)
            calls == CallsToSearch(q, use_hyde, hout, fetch_k)
        IN  IF index = None THEN Failed("attribute_error", Take(calls, Len(calls) - 1))
            ELSE IF fetch_k <= 0 THEN Failed("assertion_error", calls)
            ELSE
                LET cands == ServerCandidates(nb, Len(chunks))
                IN  IF -1 \in Range(cands) THEN Failed("index_error", calls)
                    ELSE
                        LET final == Rerank(cands, top_k, use_rerank, sc)
                        IN  [status |-> "ok",
                             ctx |-> LabeledContext(final),
                             source_map |-> ServerSourceMap(final),
                             raw |-> RawData(final),
                             calls |-> calls \o (IF use_rerank /\ cands # <<>>
                                                 THEN <<RerankCall(q, Len(cands))>>
                                                 ELSE <<>>),
                             cands |-> cands,
                             final |-> final]

\* app.py retrieve_context
AppRetrieveContext(q, top_k, use_hyde, use_rerank, hout, nb, sc) ==
    IF IndexAbsent(index) THEN
        [NoRetrieval EXCEPT !.status = "ok"]
    ELSE IF use_hyde /\ ~hout.ok THEN
        Failed("generation_error", <<GenCall(HydePrompt(q))>>)
    ELSE
        LET fetch_k == AppFetchK(top_k, use_rerank)
            calls == CallsToSearch(q, use_hyde, hout, fetch_k)
        IN  IF index = None THEN Failed("attribute_error", Take(calls, Len(calls) - 1))
            ELSE IF fetch_k <= 0 THEN Failed("assertion_error", calls)
            ELSE
                LET cands == AppCandidates(nb, Len(chunks))
                IN  IF -1 \in Range(cands) THEN Failed("index_error", calls)
                    ELSE
                        LET final == Rerank(cands, top_k, use_rerank, sc)
                        IN  [status |-> "ok",
                             ctx |-> LabeledContext(final),
                             source_map |-> AppSourceMap(final),
                             raw |-> RawData(final),
                             calls |-> calls \o (IF use_rerank /\ cands # <<>>
                                                 THEN <<RerankCall(q, Len(cands))>>
                                                 ELSE <<>>),
                             cands |-> cands,
                             final |-> final]

\* What the environment can answer to a retrieval with these arguments.
HydeOutcomes(use_hyde) ==
    IF use_hyde THEN {[ok |-> TRUE, text |-> <<HydeText>>], Fail(E503)}
    ELSE {Ok}

Neighbours(fetch_k, use_hyde, hout) ==
    IF index # None /\ fetch_k > 0 /\ (use_hyde => hout.ok)
    THEN SearchResults(index.ntotal, fetch_k)
    ELSE {<<>>}

Texts == {chunks[i].text : i \in DOMAIN chunks}

ScoreFns(use_rerank, nb) ==
    IF use_rerank /\ nb # <<>> THEN [Texts -> ScoreValues]
    ELSE {[t \in Texts |-> 0]}

NoRequest ==
    [impl |-> "none", query |-> "", top_k |-> 0, use_hyde |-> FALSE,
     use_rerank |-> FALSE, hout |-> Ok, nb |-> <<>>, sc |-> <<>>]

Request(impl, q, top_k, use_hyde, use_rerank, hout, nb, sc) ==
    [impl |-> impl, query |-> q, top_k |-> top_k, use_hyde |-> use_hyde,
     use_rerank |-> use_rerank, hout |-> hout, nb |-> nb, sc |-> sc]

ServerRetrieve(q, top_k, use_hyde, use_rerank) ==
    /\ rpc = "idle"
    /\ \E hout \in HydeOutcomes(use_hyde) :
       \E nb \in Neighbours(ServerFetchK(top_k, use_rerank), use_hyde, hout) :
       \E sc \in ScoreFns(use_rerank, nb) :
          /\ rq' = Request("server", q, top_k, use_hyde, use_rerank, hout, nb, sc)
          /\ ret' = ServerRetrieveContext(q, top_k, use_hyde, use_rerank, hout, nb, sc)
    /\ rpc' = "done"
    /\ UNCHANGED <<index, chunks>>
    /\ UNCHANGED <<llmVars, cardVars, genVars, concVars>>

AppRetrieve(q, top_k, use_hyde, use_rerank) ==
    /\ rpc = "idle"
    /\ \E hout \in HydeOutcomes(use_hyde) :
       \E nb \in Neighbours(AppFetchK(top_k, use_rerank), use_hyde, hout) :
       \E sc \in ScoreFns(use_rerank, nb) :
          /\ rq' = Request("app", q, top_k, use_hyde, use_rerank, hout, nb, sc)
          /\ ret' = AppRetrieveContext(q, top_k, use_hyde, use_rerank, hout, nb, sc)
    /\ rpc' = "done"
    /\ UNCHANGED <<index, chunks>>
    /\ UNCHANGED <<llmVars, cardVars, genVars, concVars>>

\* The caller has its answer; the next retrieval may start.
RetrieveReturn ==
    /\ rpc = "done"
    /\ rpc' = "idle"
    /\ rq' = NoRequest
    /\ ret' = NoRetrieval
    /\ UNCHANGED <<index, chunks>>
    /\ UNCHANGED <<llmVars, cardVars, genVars, concVars>>

RetrievalUnused ==
    /\ index = None
    /\ chunks = <<>>
    /\ rpc = "idle"
    /\ rq = NoRequest
    /\ ret = NoRetrieval

-----------------------------------------------------------------------------
(* Flashcards: flashcards.json and PUT /api/flashcards/review (server.py)  *)
(*                                                                         *)
(* ease_factor is kept in hundredths (2.5 is 250): every change the code   *)
(* makes to it is a multiple of 0.01.  Dates are whole days.               *)

\* dict.get(field, default)
Get(card, field, default) == IF field \in DOMAIN card THEN card[field] ELSE default

\* load_flashcards(): the list in the file, [] when there is no file
LoadFlashcards(file) == IF file.exists THEN file.cards ELSE <<>>

\* save_flashcards(cards)
SaveFlashcards(cards) == [exists |-> TRUE, cards |-> cards]

\* q_map = {"Hard": 1, "Medium": 3, "Easy": 5};  q = q_map.get(difficulty, 3)
Quality(difficulty) ==
    CASE difficulty = "Hard" -> 1
      [] difficulty = "Medium" -> 3
      [] difficulty = "Easy" -> 5
      [] OTHER -> 3

LapseBelowOne(q) == q < 1

LapseUpToThree(q) == q <= 3

\* if q < 3:  (Failed / Hard - Reset)
IsLapse(q) == q < 3

\* round(x) of x = x100 / 100.  Python rounds the double product to the
\* nearest integer; where the decimal value lies exactly between two
\* integers the double may fall on either side, so both are possible.
RoundChoices(x100) ==
    LET lo == x100 \div 100
        r == x100 % 100
    IN  IF r < 50 THEN {lo} ELSE IF r > 50 THEN {lo + 1} ELSE {lo, lo + 1}

EaseStepLinear(ef, q) == ef + (10 - (5 - q) * 8)

\* ef + (0.1 - (5 - q) * (0.08 + (5 - q) * 0.02)), in hundredths
EaseStep(ef, q) == ef + (10 - (5 - q) * (8 + (5 - q) * 2))

EaseUnclamped(ef, q) == EaseStep(ef, q)

\* if ef < 1.3: ef = 1.3
UpdatedEase(ef, q) == IF EaseStep(ef, q) < 130 THEN 130 ELSE EaseStep(ef, q)

IntervalEaseUpdated(ef, q) == UpdatedEase(ef, q)

\* The ef that `interval = round(interval * ef)` reads: line 452 runs before
\* the update of line 456.
IntervalEase(ef, q) == ef

\* The (repetition, interval) pairs lines 441-453 can leave.
Schedule(rep, interval, ef, q) ==
    IF IsLapse(q) THEN {<<0, 1>>}
    ELSE IF rep = 0 THEN {<<rep + 1, 1>>}
    ELSE IF rep = 1 THEN {<<rep + 1, 6>>}
    ELSE {<<rep + 1, iv>> : iv \in RoundChoices(interval * IntervalEase(ef, q))}

\* The records lines 432-465 can turn the matched card into, reviewed on
\* day `today`.
Reviewed(card, difficulty, today) ==
    LET q == Quality(difficulty)
        rep == Get(card, "repetition", 0)
        interval == Get(card, "interval", 1)
        ef == Get(card, "ease_factor", 250)
        put(c, f, v) == [x \in DOMAIN c \cup {f} |-> IF x = f THEN v ELSE c[x]]
    IN  {put(put(put(put(card, "repetition", s[1]), "interval", s[2]),
                 "ease_factor", UpdatedEase(ef, q)),
             "next_review", today + s[2]) :
         s \in Schedule(rep, interval, ef, q)}

LastMatch(cards, question, i) ==
    LET S == {j \in i..Len(cards) :
                "front" \in DOMAIN cards[j] /\ cards[j].front = question}
    IN  IF S = {} THEN 0 ELSE CHOOSE j \in S : \A k \in S : k <= j

RECURSIVE FirstMatch(_, _, _)
\* for card in cards: if card["front"] == review.question: ... break
\* The position of the first match; 0 when the loop ends without one;
\* -1 when a record before any match has no "front" (KeyError).
FirstMatch(cards, question, i) ==
    IF i > Len(cards) THEN 0
    ELSE IF "front" \notin DOMAIN cards[i] THEN -1
    ELSE IF cards[i].front = question THEN i
    ELSE FirstMatch(cards, question, i + 1)

NoReview ==
    [status |-> "none", question |-> "", difficulty |-> "", pos |-> 0,
     before |-> <<>>, at |-> 0]

\* api_review_flashcard.  The handler has no await: it runs from load to
\* save without another request in between.
ReviewFlashcard(question, difficulty, elapsed) ==
    /\ reviews < MaxReviews
    /\ reviews' = reviews + 1
    /\ now' = now + elapsed
    /\ LET cards == LoadFlashcards(flashcard_file)
           pos == FirstMatch(cards, question, 1)
           seen(st) == [status |-> st, question |-> question,
                        difficulty |-> difficulty, pos |-> pos,
                        before |-> cards, at |-> now']
       IN  IF pos = -1
           THEN /\ last_review' = seen("key_error")
                /\ UNCHANGED flashcard_file
           ELSE IF pos = 0
           THEN /\ last_review' = seen("ok")
                /\ flashcard_file' = SaveFlashcards(cards)
           ELSE /\ last_review' = seen("ok")
                /\ \E c \in Reviewed(cards[pos], difficulty, now') :
                      flashcard_file' = SaveFlashcards([cards EXCEPT ![pos] = c])
    /\ UNCHANGED <<saves, last_save>>
    /\ UNCHANGED <<llmVars, retVars, genVars, concVars>>

\* Stored records.  A card as api_flashcards_gen builds it:
Card(front, rep, interval, ef) ==
    [front |-> front, back |-> "A", repetition |-> rep, interval |-> interval,
     ease_factor |-> ef, next_review |-> 0]
\* a card as app.py's generate_content builds it (no SM-2 fields):
AppCard(front) == [front |-> front, back |-> "A", box |-> 0, next_review |-> 0]
\* records with one SM-2 field missing, and one without "front":
NoRepetition(front) == [front |-> front, back |-> "A", interval |-> 6, ease_factor |-> 270]
NoInterval(front) == [front |-> front, back |-> "A", repetition |-> 2, ease_factor |-> 250]
NoEase(front) == [front |-> front, back |-> "A", repetition |-> 2, interval |-> 6]
NoFront == [back |-> "A"]

Schedules == {<<1, 250>>, <<6, 270>>, <<5, 250>>, <<15, 130>>, <<3, 144>>}

StoredCards(front) ==
    {Card(front, rep, s[1], s[2]) : rep \in {0, 1, 3}, s \in Schedules}
    \cup {AppCard(front), NoRepetition(front), NoInterval(front), NoEase(front)}

StoredLists ==
    {<<>>}
    \cup {<<c>> : c \in StoredCards("Q1")}
    \cup {<<Card("Q2", 0, 1, 250), Card("Q1", 0, 1, 250)>>,
          <<AppCard("Q1"), Card("Q1", 3, 6, 270)>>,
          <<NoFront, Card("Q1", 0, 1, 250)>>,
          <<Card("Q1", 2, 6, 270), NoFront>>}

Questions == {"Q1", "Q2", "Q3"}
Difficulties == {"Hard", "Medium", "Easy", "Again"}
Elapsed == {0, 1}

-----------------------------------------------------------------------------
(* Flashcards: the Generate button of app.py in Flashcards mode *)

NoSave == [status |-> "none", content |-> <<>>, before |-> <<>>, new_cards |-> <<>>]

\* [c for c in content if c['front'] not in existing_qs]
NewCards(content, existing_qs) ==
    SelectSeq(content, LAMBDA c : c.front \notin existing_qs)

\* if mode == "Flashcards" and isinstance(content, list): ... save_flashcards
\* c['front'] on a record without "front" is a KeyError: nothing is saved.
SaveGenerated(content) ==
    /\ saves < MaxSaves
    /\ saves' = saves + 1
    /\ LET existing == LoadFlashcards(flashcard_file)
           existing_qs == {existing[i].front :
                             i \in {j \in DOMAIN existing : "front" \in DOMAIN existing[j]}}
           seen(st, nc) == [status |-> st, content |-> content,
                            before |-> existing, new_cards |-> nc]
       IN  IF \/ \E i \in DOMAIN existing : "front" \notin DOMAIN existing[i]
              \/ \E i \in DOMAIN content : "front" \notin DOMAIN content[i]
           THEN /\ last_save' = seen("key_error", <<>>)
                /\ UNCHANGED flashcard_file
           ELSE /\ last_save' = seen("ok", NewCards(content, existing_qs))
                /\ flashcard_file' =
                      SaveFlashcards(existing \o NewCards(content, existing_qs))
    /\ UNCHANGED <<now, reviews, last_review>>
    /\ UNCHANGED <<llmVars, retVars, genVars, concVars>>

\* What generate_content returns in Flashcards mode: the parsed list, each
\* card given box = 0 and next_review.
GeneratedCards == {AppCard(f) : f \in Questions} \cup {[back |-> "A", box |-> 0, next_review |-> 0]}

Batches == UNION {[1..n -> GeneratedCards] : n \in 0..MaxBatch}

\* Stored lists in which no front occurs twice.
SavedLists ==
    {<<>>, <<AppCard("Q1")>>, <<Card("Q2", 1, 1, 260), AppCard("Q3")>>,
     <<NoFront, AppCard("Q1")>>}

CardsUnused ==
    /\ flashcard_file = [exists |-> FALSE, cards |-> <<>>]
    /\ now = 0
    /\ reviews = 0
    /\ last_review = NoReview
    /\ saves = 0
    /\ last_save = NoSave

-----------------------------------------------------------------------------
(* Structured generation: the text the model returns, clean_json_response  *)
(* and what the callers make of it (server.py, quiz_engine.py,             *)
(* visual_engine.py).  Retrieval and the generation call have succeeded;   *)
(* the text is the input.                                                  *)

\* A response text is a sequence of tokens: brackets, braces, "m" (one
\* "key": scalar member of an object), "n" (a number) and "w" (prose).
\* Separators go with the token before them.
Tokens == {"[", "]", "{", "}", "m", "n", "w"}
ResponseTexts == UNION {[1..n -> Tokens] : n \in 0..MaxTokens}

\* Python values json.loads can return, and None.
PyNone == [t |-> "none"]
JNum == [t |-> "num"]
JList(items) == [t |-> "list", items |-> items]
JObject(n) == [t |-> "object", members |-> n]

NoParse == [ok |-> FALSE, value |-> PyNone, next |-> 0]

RECURSIVE ParseValue(_, _)
RECURSIVE ParseItems(_, _, _)
RECURSIVE ParseMembers(_, _, _)

\* One JSON value starting at token i of s; next is the token after it.
ParseValue(s, i) ==
    IF i > Len(s) THEN NoParse
    ELSE CASE s[i] = "n" -> [ok |-> TRUE, value |-> JNum, next |-> i + 1]
           [] s[i] = "[" -> ParseItems(s, i + 1, <<>>)
           [] s[i] = "{" -> ParseMembers(s, i + 1, 0)
           [] OTHER -> NoParse

ParseItems(s, i, acc) ==
    IF i > Len(s) THEN NoParse
    ELSE IF s[i] = "]" THEN [ok |-> TRUE, value |-> JList(acc), next |-> i + 1]
    ELSE LET r == ParseValue(s, i)
         IN  IF r.ok THEN ParseItems(s, r.next, Append(acc, r.value)) ELSE NoParse

ParseMembers(s, i, n) ==
    IF i > Len(s) THEN NoParse
    ELSE IF s[i] = "}" THEN [ok |-> TRUE, value |-> JObject(n), next |-> i + 1]
    ELSE IF s[i] = "m" THEN ParseMembers(s, i + 1, n + 1)
    ELSE NoParse

\* json.loads(s): the value when the whole of s is one JSON value, else it
\* raises.
JsonLoads(s) ==
    LET r == ParseValue(s, 1)
    IN  IF r.ok /\ r.next = Len(s) + 1
        THEN [ok |-> TRUE, value |-> r.value]
        ELSE [ok |-> FALSE, value |-> PyNone]

Closer(o) == IF o = "[" THEN "]" ELSE "}"

\* re.search(r'(\[.*\]|\{.*\})', text, re.DOTALL): the leftmost opener that
\* has its closer somewhere after it, up to the last such closer (greedy).
Search(text, openers) ==
    LET ends(i) == {j \in (i + 1)..Len(text) : text[j] = Closer(text[i])}
        starts == {i \in DOMAIN text : text[i] \in openers /\ ends(i) # {}}
    IN  IF starts = {} THEN [found |-> FALSE, group |-> <<>>]
        ELSE LET i == CHOOSE a \in starts : \A b \in starts : a <= b
                 j == CHOOSE a \in ends(i) : \A b \in ends(i) : b <= a
             IN  [found |-> TRUE, group |-> SubSeq(text, i, j)]

\* if match: return json.loads(match.group(1));  return json.loads(text)
Extracted(text, openers) ==
    LET m == Search(text, openers)
    IN  JsonLoads(IF m.found THEN m.group ELSE text)

\* clean_json_response (server.py), VisualEngine._clean_json_response:
\* except: return None
CleanJsonResponse(text) ==
    LET r == Extracted(text, {"[", "{"})
    IN  IF r.ok THEN r.value ELSE PyNone

\* QuizEngine._clean_json_response: only a [...] span; except: return []
QuizCleanJsonResponse(text) ==
    LET r == Extracted(text, {"["})
    IN  IF r.ok THEN r.value ELSE JList(<<>>)

\* Python truth value
Truthy(v) ==
    CASE v.t = "none" -> FALSE
      [] v.t = "num" -> TRUE
      [] v.t = "list" -> Len(v.items) > 0
      [] v.t = "object" -> v.members > 0

Responded(body) == [kind |-> "ok", body |-> body]
Http500(detail) == [kind |-> "http_500", body |-> PyNone, detail |-> detail]

KeepParsed(v) == v

\* clean_json_response(res.text) or []
OrEmpty(v) == IF Truthy(v) THEN v ELSE JList(<<>>)

\* c["repetition"] = 0; c["interval"] = 1; c["ease_factor"] = 2.5; ...
WithSrs(c) == [t |-> "card", members |-> c.members]

\* api_flashcards_gen after the generation: the loop assigns into each
\* element; anything but a list of objects makes it raise TypeError, which
\* the handler turns into HTTP 500.
FlashcardsGenerated(text) ==
    LET cards == OrEmpty(CleanJsonResponse(text))
    IN  IF cards.t = "list"
        THEN IF \A i \in DOMAIN cards.items : cards.items[i].t = "object"
             THEN Responded(JList([i \in DOMAIN cards.items |-> WithSrs(cards.items[i])]))
             ELSE Http500("TypeError")
        ELSE Http500("TypeError")

QuizFailed == "AI failed to generate a valid quiz JSON."

\* QuizEngine.generate_quiz inside api_quiz: if not questions: raise
GenerateQuiz(text) ==
    LET questions == QuizCleanJsonResponse(text)
    IN  IF ~Truthy(questions) THEN Http500(QuizFailed) ELSE Responded(questions)

ParseErrorMap == [t |-> "placeholder", why |-> "Parse Error"]

\* VisualEngine.generate_mind_map inside api_mindmap: if not data: return
\* the "Parse Error" map
GenerateMindMap(text) ==
    LET data == CleanJsonResponse(text)
    IN  IF ~Truthy(data) THEN Responded(ParseErrorMap) ELSE Responded(data)

NoGeneration == [endpoint |-> "none", text |-> <<>>, result |-> Responded(PyNone)]

Handled(endpoint, text, outcome) ==
    [endpoint |-> endpoint, text |-> text, result |-> outcome]

\* POST /api/flashcards/generate
ApiFlashcardsGen ==
    /\ gen = NoGeneration
    /\ \E text \in ResponseTexts : gen' = Handled("flashcards", text, FlashcardsGenerated(text))
    /\ UNCHANGED <<llmVars, retVars, cardVars, concVars>>

\* POST /api/quiz
ApiQuiz ==
    /\ gen = NoGeneration
    /\ \E text \in ResponseTexts : gen' = Handled("quiz", text, GenerateQuiz(text))
    /\ UNCHANGED <<llmVars, retVars, cardVars, concVars>>

\* POST /api/mindmap
ApiMindmap ==
    /\ gen = NoGeneration
    /\ \E text \in ResponseTexts : gen' = Handled("mindmap", text, GenerateMindMap(text))
    /\ UNCHANGED <<llmVars, retVars, cardVars, concVars>>

\* The response is sent.
GenRespond ==
    /\ gen # NoGeneration
    /\ gen' = NoGeneration
    /\ UNCHANGED <<llmVars, retVars, cardVars, concVars>>

GenUnused == gen = NoGeneration

-----------------------------------------------------------------------------
(* Requests in flight at the same time *)

\* LLMFallback with several calls in flight.  Each call has its own locals;
\* self.current_index and the key genai.configure() set are shared.  A call
\* runs on the event loop without interruption from one await to the next
\* (generate_content_async); the invocation and the sync wrapper run in
\* threads of anyio.to_thread.

Calls == 1..MaxCalls

IdleCall ==
    [pc |-> "idle", sync |-> FALSE, started |-> 0, attempt |-> 0, idx |-> -1,
     last_error |-> None, log |-> <<>>, result |-> NoResult]

\* How the credential in use answers when the invocation runs.
RaceOutcomes == {Ok, Fail(E429), Fail(EInvalid)}

ConfiguredByCaller(own, configured) == own

\* The credential an invocation runs under: model_info["model"] holds no key
\* of its own, so it is the one genai.configure() set last, by any call.
KeyInEffect(own, configured) == configured

\* The loop from its head to the next point where the call gives up
\* control: idx = (self.current_index + attempt) % n, model_info =
\* self.model_pool[idx], genai.configure(api_key=...) and the await; or,
\* range() being used up, the raise after the loop.  The call as it goes on,
\* and the key configured after it.
NextAttempt(me) ==
    IF me.attempt >= NumKeys
    THEN [call |-> [me EXCEPT !.pc = "done",
                              !.result = Exhausted(NumKeys, me.last_error)],
          key |-> active_key]
    ELSE LET i == Rotation(current_index, me.attempt, NumKeys)
         IN  IF i + 1 \in DOMAIN model_pool
             THEN [call |-> [me EXCEPT !.pc = "invoke", !.idx = i],
                   key |-> model_pool[i + 1].key]
             ELSE [call |-> [me EXCEPT !.pc = "done", !.idx = i,
                                       !.result = IndexErr],
                   key |-> active_key]

\* generate_content_async runs from its entry to the first await.
CallStart(c) ==
    /\ pool_calls[c].pc = "idle"
    /\ LET r == NextAttempt([IdleCall EXCEPT !.started = current_index])
       IN  /\ pool_calls' = [pool_calls EXCEPT ![c] = r.call]
           /\ active_key' = r.key
    /\ UNCHANGED <<api_keys, model_pool, current_index, pc, kind, health, start,
                   attempt, idx, last_error, log, result, workers>>
    /\ UNCHANGED <<retVars, cardVars, genVars>>

\* The sync wrapper, in a worker thread: idx = self.current_index,
\* model_info = self.model_pool[idx], genai.configure(api_key=...)
SyncActivate(c) ==
    /\ pool_calls[c].pc = "idle"
    /\ IF current_index + 1 \in DOMAIN model_pool
       THEN /\ active_key' = model_pool[current_index + 1].key
            /\ pool_calls' = [pool_calls EXCEPT ![c] =
                                [@ EXCEPT !.pc = "invoke", !.sync = TRUE,
                                          !.started = current_index,
                                          !.idx = current_index]]
       ELSE /\ pool_calls' = [pool_calls EXCEPT ![c] =
                                [@ EXCEPT !.pc = "done", !.sync = TRUE,
                                          !.started = current_index,
                                          !.idx = current_index,
                                          !.result = IndexErr]]
            /\ UNCHANGED active_key
    /\ UNCHANGED <<api_keys, model_pool, current_index, pc, kind, health, start,
                   attempt, idx, last_error, log, result, workers>>
    /\ UNCHANGED <<retVars, cardVars, genVars>>

RECURSIVE Invocations(_)
\* The invocations made so far by calls 1..c.
Invocations(c) == IF c = 0 THEN 0 ELSE Len(pool_calls[c].log) + Invocations(c - 1)

\* The invocation as the call's log records it.
Invocation(me, out) ==
    [idx |-> me.idx,
     key |-> KeyInEffect(model_pool[me.idx + 1].key, active_key),
     out |-> out]

\* model_info["model"].generate_content(prompt) runs in the thread
\* anyio.to_thread gave it.
CallInvoke(c, out) ==
    /\ pool_calls[c].pc = "invoke"
    /\ ~pool_calls[c].sync
    /\ Invocations(MaxCalls) < MaxInvocations
    /\ out \in RaceOutcomes
    /\ pool_calls' = [pool_calls EXCEPT ![c] =
          [@ EXCEPT !.pc = "resume",
                    !.log = Append(@, Invocation(pool_calls[c], out))]]
    /\ UNCHANGED <<llmVars, workers>>
    /\ UNCHANGED <<retVars, cardVars, genVars>>

\* The sync wrapper's model_info["model"].generate_content(prompt), and
\* its return or the exception.
SyncInvoke(c, out) ==
    /\ pool_calls[c].pc = "invoke"
    /\ pool_calls[c].sync
    /\ Invocations(MaxCalls) < MaxInvocations
    /\ out \in RaceOutcomes
    /\ pool_calls' = [pool_calls EXCEPT ![c] =
          [@ EXCEPT !.pc = "done",
                    !.log = Append(@, Invocation(pool_calls[c], out)),
                    !.result = IF out.ok THEN Returned(pool_calls[c].idx)
                               ELSE Raised(out.text)]]
    /\ UNCHANGED <<llmVars, workers>>
    /\ UNCHANGED <<retVars, cardVars, genVars>>

\* The call continues after the await: the sticky update and return; or the
\* except clause, which raises, or goes round the loop to the next await.
CallResume(c) ==
    /\ pool_calls[c].pc = "resume"
    /\ LET me == pool_calls[c]
           out == me.log[Len(me.log)].out
           failed == [me EXCEPT !.last_error = RecordError(me.last_error, out)]
       IN  IF out.ok
           THEN /\ current_index' = Sticky(current_index, me.idx)
                /\ pool_calls' = [pool_calls EXCEPT ![c] =
                      [me EXCEPT !.pc = "done", !.result = Returned(me.idx)]]
                /\ UNCHANGED active_key
           ELSE IF IsTransient(out.text)
           THEN LET r == NextAttempt([failed EXCEPT !.attempt = @ + 1])
                IN  /\ pool_calls' = [pool_calls EXCEPT ![c] = r.call]
                    /\ active_key' = r.key
                    /\ UNCHANGED current_index
           ELSE /\ pool_calls' = [pool_calls EXCEPT ![c] =
                      [failed EXCEPT !.pc = "done", !.result = Raised(out.text)]]
                /\ UNCHANGED <<current_index, active_key>>
    /\ UNCHANGED <<api_keys, model_pool, pc, kind, health, start,
                   attempt, idx, last_error, log, result, workers>>
    /\ UNCHANGED <<retVars, cardVars, genVars>>

-----------------------------------------------------------------------------
(* Flashcard reviews in flight at the same time.  The server handles one   *)
(* review from load to save before it starts the next (the handler has no  *)
(* await); the app runs update_card_mastery in one thread per session, in  *)
(* another process, on the same flashcards.json.                           *)

Workers == 1..MaxWorkers

IdleWorker ==
    [pc |-> "idle", impl |-> "none", question |-> "", difficulty |-> "",
     cards |-> <<>>, saved |-> <<>>, status |-> "none"]

\* app.py update_card_mastery: only next_review changes, by difficulty
AppReviewed(card, difficulty, today) ==
    LET put(c, f, v) == [x \in DOMAIN c \cup {f} |-> IF x = f THEN v ELSE c[x]]
    IN  CASE difficulty = "Hard" -> put(card, "next_review", today)
          [] difficulty = "Medium" -> put(card, "next_review", today + 1)
          [] difficulty = "Easy" -> put(card, "next_review", today + 3)
          [] OTHER -> card

\* The records a review can turn the matched card into.
ReviewedBy(impl, card, difficulty, today) ==
    IF impl = "server" THEN Reviewed(card, difficulty, today)
    ELSE {AppReviewed(card, difficulty, today)}

MergedIntoCurrent(loaded, current, pos, c) ==
    IF pos \in DOMAIN current THEN [current EXCEPT ![pos] = c] ELSE current

\* What save_flashcards(cards) writes: the list this review loaded, with its
\* card updated; `current` is what the file holds by now.
Written(loaded, current, pos, c) == [loaded EXCEPT ![pos] = c]

\* cards = load_flashcards()
ReviewLoad(w, impl, question, difficulty) ==
    /\ workers[w].pc = "idle"
    /\ impl = "server" =>
          \A v \in Workers : ~(workers[v].impl = "server" /\ workers[v].pc = "loaded")
    /\ workers' = [workers EXCEPT ![w] =
          [@ EXCEPT !.pc = "loaded", !.impl = impl, !.question = question,
                    !.difficulty = difficulty,
                    !.cards = LoadFlashcards(flashcard_file)]]
    /\ UNCHANGED <<llmVars, retVars, cardVars, genVars, pool_calls>>

\* for card in cards: ... break;  save_flashcards(cards)
ReviewSave(w) ==
    /\ workers[w].pc = "loaded"
    /\ LET me == workers[w]
           pos == FirstMatch(me.cards, me.question, 1)
       IN  IF pos = -1
           THEN /\ workers' = [workers EXCEPT ![w] =
                      [@ EXCEPT !.pc = "done", !.status = "key_error"]]
                /\ UNCHANGED flashcard_file
           ELSE IF pos = 0
           THEN /\ workers' = [workers EXCEPT ![w] =
                      [@ EXCEPT !.pc = "done", !.status = "ok", !.saved = me.cards]]
                /\ flashcard_file' = SaveFlashcards(me.cards)
           ELSE \E c \in ReviewedBy(me.impl, me.cards[pos], me.difficulty, now) :
                  LET list == Written(me.cards, LoadFlashcards(flashcard_file), pos, c)
                  IN  /\ workers' = [workers EXCEPT ![w] =
                            [@ EXCEPT !.pc = "done", !.status = "ok", !.saved = list]]
                      /\ flashcard_file' = SaveFlashcards(list)
    /\ UNCHANGED <<now, reviews, last_review, saves, last_save>>
    /\ UNCHANGED <<llmVars, retVars, genVars, pool_calls>>

\* Lists of two cards, as the server and as the app store them.
SharedLists ==
    {<<Card("Q1", 0, 1, 250), Card("Q2", 1, 1, 260)>>,
     <<AppCard("Q1"), AppCard("Q2")>>,
     <<Card("Q1", 3, 15, 130), NoFront, AppCard("Q2")>>}

ConcUnused ==
    /\ pool_calls = <<>>
    /\ workers = <<>>

-----------------------------------------------------------------------------
(* Specifications *)

\* The client right after construction, for a pool of n keys.
\* llm = LLMFallback(API_KEYS) with GenerativeModel() raising for the keys at
\* the positions in failedInit.
LLMConstructedSkipping(n, failedInit) ==
    /\ api_keys = LoadApiKeys(n)
    /\ model_pool = BuildPool(api_keys, failedInit)
    /\ current_index = 0
    /\ active_key = "unset"
    /\ pc = "idle"
    /\ kind = "none"
    /\ health = [p \in Positions |-> Ok]
    /\ start = 0
    /\ attempt = 0
    /\ idx = -1
    /\ last_error = None
    /\ log = <<>>
    /\ result = NoResult

\* llm = LLMFallback(API_KEYS), every GenerativeModel() succeeding
LLMConstructed(n) == LLMConstructedSkipping(n, {})

InitLLM ==
    /\ \E n \in 1..MaxKeys : LLMConstructed(n)
    /\ RetrievalUnused
    /\ CardsUnused
    /\ GenUnused
    /\ ConcUnused

NextLLM ==
    \/ \E k \in AsyncKinds : \E h \in [Positions -> Outcomes] : BeginAsync(k, h)
    \/ Activate
    \/ Complete
    \/ Exhaust
    \/ \E k \in SyncKinds : \E h \in [Positions -> Outcomes] : GenerateContent(k, h)
    \/ Finish

SpecLLM == InitLLM /\ [][NextLLM]_vars

\* The client as __init__ leaves it when model initialisation may fail for
\* any of the keys, then the same calls.
InitSkipping ==
    /\ \E n \in 1..MaxKeysSkipping : \E failedInit \in SUBSET (0..(n - 1)) :
          LLMConstructedSkipping(n, failedInit)
    /\ RetrievalUnused
    /\ CardsUnused
    /\ GenUnused
    /\ ConcUnused

SpecSkipping == InitSkipping /\ [][NextLLM]_vars

\* if INDEX_PATH.exists() and META_PATH.exists(): load both; else None, []
InitRetrieve ==
    /\ LLMConstructed(1)
    /\ \/ index = None /\ chunks = <<>>
       \/ \E n \in 0..MaxVectors : index = [ntotal |-> n] /\ chunks = Corpus
    /\ rpc = "idle"
    /\ rq = NoRequest
    /\ ret = NoRetrieval
    /\ CardsUnused
    /\ GenUnused
    /\ ConcUnused

NextRetrieve ==
    \/ \E q \in Queries, top_k \in TopKs, use_hyde \in BOOLEAN, use_rerank \in BOOLEAN :
          ServerRetrieve(q, top_k, use_hyde, use_rerank)
    \/ \E q \in Queries, top_k \in TopKs, use_hyde \in BOOLEAN, use_rerank \in BOOLEAN :
          AppRetrieve(q, top_k, use_hyde, use_rerank)
    \/ RetrieveReturn

SpecRetrieve == InitRetrieve /\ [][NextRetrieve]_vars

\* flashcards.json is absent, or holds any stored list.
InitCards ==
    /\ LLMConstructed(1)
    /\ RetrievalUnused
    /\ \/ flashcard_file = [exists |-> FALSE, cards |-> <<>>]
       \/ \E l \in StoredLists : flashcard_file = [exists |-> TRUE, cards |-> l]
    /\ now = 0
    /\ reviews = 0
    /\ last_review = NoReview
    /\ saves = 0
    /\ last_save = NoSave
    /\ GenUnused
    /\ ConcUnused

NextCards ==
    \E question \in Questions, difficulty \in Difficulties, elapsed \in Elapsed :
        ReviewFlashcard(question, difficulty, elapsed)

SpecCards == InitCards /\ [][NextCards]_vars

\* The app's flashcards.json is absent, or holds a list without repeated fronts.
InitSave ==
    /\ LLMConstructed(1)
    /\ RetrievalUnused
    /\ \/ flashcard_file = [exists |-> FALSE, cards |-> <<>>]
       \/ \E l \in SavedLists : flashcard_file = [exists |-> TRUE, cards |-> l]
    /\ now = 0
    /\ reviews = 0
    /\ last_review = NoReview
    /\ saves = 0
    /\ last_save = NoSave
    /\ GenUnused
    /\ ConcUnused

NextSave == \E content \in Batches : SaveGenerated(content)

SpecSave == InitSave /\ [][NextSave]_vars

InitGen ==
    /\ LLMConstructed(1)
    /\ RetrievalUnused
    /\ CardsUnused
    /\ GenUnused
    /\ ConcUnused

NextGen ==
    \/ ApiFlashcardsGen
    \/ ApiQuiz
    \/ ApiMindmap
    \/ GenRespond

SpecGen == InitGen /\ [][NextGen]_vars

\* The client right after construction; MaxCalls requests are about to call it.
InitPool ==
    /\ \E n \in 1..MaxKeys : LLMConstructed(n)
    /\ RetrievalUnused
    /\ CardsUnused
    /\ GenUnused
    /\ pool_calls = [c \in Calls |-> IdleCall]
    /\ workers = <<>>

NextPool ==
    \/ \E c \in Calls : CallStart(c)
    \/ \E c \in Calls : SyncActivate(c)
    \/ \E c \in Calls : \E out \in RaceOutcomes : CallInvoke(c, out)
    \/ \E c \in Calls : \E out \in RaceOutcomes : SyncInvoke(c, out)
    \/ \E c \in Calls : CallResume(c)

SpecPool == InitPool /\ [][NextPool]_vars

\* flashcards.json holds a list; it is the day after the cards were stored.
InitReviews ==
    /\ LLMConstructed(1)
    /\ RetrievalUnused
    /\ GenUnused
    /\ \E l \in SharedLists : flashcard_file = [exists |-> TRUE, cards |-> l]
    /\ now = 1
    /\ reviews = 0
    /\ last_review = NoReview
    /\ saves = 0
    /\ last_save = NoSave
    /\ pool_calls = <<>>
    /\ workers = [w \in Workers |-> IdleWorker]

NextReviews ==
    \/ \E w \in Workers, impl \in {"server", "app"}, question \in Questions,
          difficulty \in Difficulties : ReviewLoad(w, impl, question, difficulty)
    \/ \E w \in Workers : ReviewSave(w)

SpecReviews == InitReviews /\ [][NextReviews]_vars

-----------------------------------------------------------------------------
(* Properties of the fail-over client *)

\* The error classes as the design states them, independent of IsTransient.
TransientTexts == {E429, EQuota, E503}
FatalTexts == {EInvalid}

FailsTransiently(o) == ~o.ok /\ o.text \in TransientTexts
FailsFatally(o) == ~o.ok /\ o.text \in FatalTexts

AsyncDone == pc = "done" /\ kind \in AsyncKinds

\* C1: with no other call in flight, if the credentials at positions
\* s, s+1, ..., s+k-1 (mod N) fail transiently and the one at (s+k) mod N
\* succeeds, a generate_content_async call that started at current_index = s
\* makes exactly k+1 invocations, in rotation order, returns the successful
\* result, and leaves current_index = (s+k) mod N.
C1_PoolRotation ==
    AsyncDone =>
        \A k \in Positions :
            (/\ \A j \in 0..(k - 1) : FailsTransiently(health[(start + j) % NumKeys])
             /\ health[(start + k) % NumKeys].ok)
            => /\ Len(log) = k + 1
               /\ \A i \in 1..(k + 1) :
                      /\ log[i].idx = (start + i - 1) % NumKeys
                      /\ log[i].out = health[(start + i - 1) % NumKeys]
               /\ result = Returned((start + k) % NumKeys)
               /\ current_index = (start + k) % NumKeys

\* A call that started at position 1 of three, failed twice and wrapped
\* around to succeed on position 0.
C1_Witness ==
    /\ AsyncDone
    /\ NumKeys = 3
    /\ start = 1
    /\ FailsTransiently(health[1]) /\ FailsTransiently(health[2]) /\ health[0].ok
    /\ Len(log) = 3
    /\ result.kind = "ok"
    /\ current_index = 0

\* C2: if all N credentials fail transiently during one call, the call
\* raises the exhaustion error after exactly N invocations and the error
\* carries the error of the last credential attempted.
C2_PoolExhaustion ==
    (AsyncDone /\ \A p \in Positions : FailsTransiently(health[p]))
    => /\ Len(log) = NumKeys
       /\ \A i \in 1..NumKeys : log[i].idx = (start + i - 1) % NumKeys
       /\ result = Exhausted(NumKeys, health[(start + NumKeys - 1) % NumKeys])
       /\ result.err = log[Len(log)].out.text

\* Three credentials all failed, the first and the last with different texts.
C2_Witness ==
    /\ AsyncDone
    /\ NumKeys = 3
    /\ \A p \in Positions : FailsTransiently(health[p])
    /\ result.kind = "exhausted"
    /\ Len(log) = 3
    /\ log[1].out # log[3].out
    /\ log[2].out # log[3].out

\* C3: once an invocation of a generate_content_async call has failed with
\* a non-recoverable error, that invocation is the call's last one, the call
\* has ended, and the caller receives that same error, not the exhaustion
\* error.
C3_NonRecoverableStops ==
    kind \in AsyncKinds =>
        \A i \in 1..Len(log) :
            FailsFatally(log[i].out)
            => /\ i = Len(log)
               /\ pc = "done"
               /\ result = Raised(log[i].out.text)

\* The second of three credentials failed fatally; the third, untried, was
\* healthy.
C3_Witness ==
    /\ AsyncDone
    /\ NumKeys = 3
    /\ start = 0
    /\ Len(log) = 2
    /\ FailsTransiently(log[1].out)
    /\ FailsFatally(log[2].out)
    /\ health[2].ok
    /\ result.kind = "raised"

\* C4 (as claimed): for every generation request of the service, when the
\* credential at current_index fails transiently, no credential fails
\* non-recoverably and some other credential would succeed, the caller gets
\* a successful result.
C4_EveryRequestFailsOver ==
    (/\ pc = "done"
     /\ FailsTransiently(health[start])
     /\ \A p \in Positions : health[p].ok \/ FailsTransiently(health[p])
     /\ \E p \in Positions : health[p].ok)
    => CallerSees(kind, result) = "success"

-----------------------------------------------------------------------------
(* Properties of retrieve_context *)

Retrieved == rpc = "done"

SearchCalls == {i \in DOMAIN ret.calls : ret.calls[i].op = "search"}

\* C5: with no index loaded, retrieve_context returns the empty context,
\* the empty source map and the empty raw list for every query, top_k,
\* use_hyde and use_rerank, without raising and without any generation,
\* embedding, search or rerank call.
C5_MissingIndex ==
    (Retrieved /\ index = None)
    => /\ ret.status = "ok"
       /\ ret.ctx = <<>>
       /\ DOMAIN ret.source_map = {}
       /\ ret.raw = <<>>
       /\ ret.calls = <<>>

\* No index, HyDE and reranking both asked for.
C5_Witness ==
    /\ Retrieved
    /\ index = None
    /\ rq.impl = "server"
    /\ rq.use_hyde /\ rq.use_rerank
    /\ rq.top_k = DefaultTopK
    /\ ret.status = "ok"

\* C6 (as claimed): in each implementation a retrieval with use_rerank asks
\* the index for exactly top_k * 3 neighbours, and one without for top_k.
C6_FetchWidthTimesThree ==
    Retrieved =>
        \A i \in SearchCalls :
            ret.calls[i].k = IF rq.use_rerank THEN rq.top_k * 3 ELSE rq.top_k

\* C6 (amended): with use_rerank, app.py asks the index for exactly
\* top_k * 3 neighbours and server.py for exactly top_k * 2; without
\* use_rerank both ask for exactly top_k; every retrieval that gets past the
\* HyDE step issues exactly one search, and its width depends on neither
\* use_hyde nor the query.
C6_FetchWidth ==
    Retrieved =>
        /\ \A i \in SearchCalls :
              ret.calls[i].k =
                  IF ~rq.use_rerank THEN rq.top_k
                  ELSE IF rq.impl = "server" THEN rq.top_k * 2 ELSE rq.top_k * 3
        /\ (index # None /\ (rq.use_hyde => rq.hout.ok)) => Cardinality(SearchCalls) = 1

\* The server, reranking on, default top_k = 6: a search for 12.
C6_Witness ==
    /\ Retrieved
    /\ rq.impl = "server"
    /\ rq.use_rerank
    /\ rq.top_k = DefaultTopK
    /\ ret.status = "ok"
    /\ \E i \in SearchCalls : ret.calls[i].k = 12

\* The neighbours that name a chunk, in the order the search returned them.
InRange(i) == i >= 0 /\ i < Len(chunks)
VectorOrder == SelectSeq(rq.nb, InRange)

ScoreOf(c) == rq.sc[chunks[c + 1].text]
PosIn(seq, c) == CHOOSE i \in DOMAIN seq : seq[i] = c
\* a ranks ahead of b: a higher score, or the same score and found earlier
RanksAhead(a, b) ==
    \/ ScoreOf(a) > ScoreOf(b)
    \/ ScoreOf(a) = ScoreOf(b) /\ PosIn(VectorOrder, a) < PosIn(VectorOrder, b)

\* C7: with use_rerank and a non-empty candidate set the final list is the
\* candidates in descending score order, equal scores in vector-search
\* order, cut to the first top_k; without use_rerank it is the vector-search
\* order unchanged; either way it has at most top_k entries.
C7_RerankOrder ==
    (Retrieved /\ ret.status = "ok" /\ index # None)
    => /\ Len(ret.final) <= rq.top_k
       /\ IF rq.use_rerank /\ VectorOrder # <<>>
          THEN /\ Len(ret.final) = Min(rq.top_k, Len(VectorOrder))
               /\ Range(ret.final) \subseteq Range(VectorOrder)
               /\ \A i, j \in DOMAIN ret.final :
                      i < j => RanksAhead(ret.final[i], ret.final[j])
               /\ \A c \in Range(VectorOrder) \ Range(ret.final) :
                      \A i \in DOMAIN ret.final : RanksAhead(ret.final[i], c)
          ELSE ret.final = VectorOrder

\* Candidates scored 0.2, 0.9, 0.5 come back as 0.9, 0.5, 0.2 for top_k = 3.
C7_Witness ==
    /\ Retrieved
    /\ ret.status = "ok"
    /\ rq.use_rerank
    /\ rq.top_k = 3
    /\ Len(VectorOrder) = 3
    /\ [i \in 1..3 |-> ScoreOf(VectorOrder[i])] = <<2, 9, 5>>
    /\ [i \in 1..3 |-> ScoreOf(ret.final[i])] = <<9, 5, 2>>

\* C8 (as claimed): for a final list of n candidates the ids are 1..n in
\* rank order; source_map, looked up by the integer i, gives the source file
\* of the i-th candidate and has exactly n entries; raw[i-1] is
\* {id: i, file, text}; the context is the blocks "SOURCE [i]: <text>"
\* separated by one blank line.
C8_CitationLabels ==
    (Retrieved /\ ret.status = "ok")
    => LET n == Len(ret.final)
           chunk(i) == chunks[ret.final[i] + 1]
       IN  /\ DOMAIN ret.source_map = {PyInt(i) : i \in 1..n}
           /\ \A i \in 1..n :
                  /\ PyInt(i) \in DOMAIN ret.source_map
                  /\ ret.source_map[PyInt(i)] = SourceFile(chunk(i))
                  /\ ret.raw[i] = [id |-> i, file |-> SourceFile(chunk(i)),
                                    text |-> chunk(i).text]
           /\ Len(ret.raw) = n
           /\ Cardinality(DOMAIN ret.source_map) = n
           /\ ret.ctx = Join([i \in 1..n |-> <<"SOURCE [", ToString(i), "]: ",
                                                chunk(i).text>>], "\n\n")

-----------------------------------------------------------------------------
(* Properties of the flashcard review *)

\* The last review request found a stored card and updated it.
ReviewApplied == last_review.status = "ok" /\ last_review.pos > 0
CardBefore == last_review.before[last_review.pos]
CardAfter == flashcard_file.cards[last_review.pos]

Has(card, rep, interval, ef) ==
    /\ {"repetition", "interval", "ease_factor"} \subseteq DOMAIN card
    /\ card.repetition = rep
    /\ card.interval = interval
    /\ card.ease_factor = ef

\* C9: a Hard review of a stored card, whatever its repetition, interval and
\* ease_factor and whichever of them are missing, leaves the card with
\* repetition = 0 and interval = 1.
C9_HardResets ==
    (ReviewApplied /\ last_review.difficulty = "Hard")
    => /\ {"repetition", "interval"} \subseteq DOMAIN CardAfter
       /\ CardAfter.repetition = 0
       /\ CardAfter.interval = 1

\* A card with repetition 3 and interval 15 was reviewed Hard.
C9_Witness ==
    /\ ReviewApplied
    /\ last_review.difficulty = "Hard"
    /\ Has(CardBefore, 3, 15, 130)
    /\ CardAfter.repetition = 0
    /\ CardAfter.interval = 1

\* C10: a Medium or Easy review sets interval to 1 when the repetition
\* before the review is 0, to 6 when it is 1, and otherwise to the integer
\* nearest to interval * ease_factor, both as held before the review, and
\* then adds 1 to repetition.  So three Easy reviews of a fresh card
\* (0, 1, 2.5) give (interval, repetition) = (1, 1), then (6, 2), then
\* (round(6 * 2.7), 3) = (16, 3), 2.7 being the ease factor the second
\* review left.
C10_PassSchedule ==
    (ReviewApplied /\ last_review.difficulty \in {"Medium", "Easy"})
    => LET rep == Get(CardBefore, "repetition", 0)
           interval == Get(CardBefore, "interval", 1)
           ef == Get(CardBefore, "ease_factor", 250)
           d == 100 * CardAfter.interval - interval * ef
       IN  /\ CardAfter.repetition = rep + 1
           /\ rep = 0 => CardAfter.interval = 1
           /\ rep = 1 => CardAfter.interval = 6
           /\ rep > 1 => (d >= -50 /\ d <= 50)
           /\ last_review.difficulty = "Easy" =>
                 /\ Has(CardBefore, 0, 1, 250) => Has(CardAfter, 1, 1, 260)
                 /\ Has(CardBefore, 1, 1, 260) => Has(CardAfter, 2, 6, 270)
                 /\ Has(CardBefore, 2, 6, 270) => Has(CardAfter, 3, 16, 280)

\* The third of three Easy reviews of a card stored fresh.
C10_Witness ==
    /\ ReviewApplied
    /\ reviews = 3
    /\ last_review.difficulty = "Easy"
    /\ Has(CardBefore, 2, 6, 270)
    /\ Has(CardAfter, 3, 16, 280)

\* C11: after any sequence of Hard, Medium and Easy reviews of a card that
\* started at repetition = 0, interval = 1, ease_factor = 2.5, and of every
\* other stored card, each stored record has ease_factor >= 1.3 and
\* interval >= 1.
C11_EaseAndIntervalFloor ==
    \A i \in DOMAIN flashcard_file.cards :
        /\ Get(flashcard_file.cards[i], "ease_factor", 250) >= 130
        /\ Get(flashcard_file.cards[i], "interval", 1) >= 1

\* Three Hard reviews of a card stored fresh: 2.5 - 3 * 0.54 is below 1.3.
C11_Witness ==
    /\ ReviewApplied
    /\ reviews = 3
    /\ last_review.difficulty = "Hard"
    /\ Has(CardBefore, 0, 1, 142)
    /\ EaseStep(142, Quality("Hard")) < 130
    /\ Has(CardAfter, 0, 1, 130)

-----------------------------------------------------------------------------
(* Properties of the flashcard save *)

\* C12: after any sequence of generate-and-save operations no two records
\* of the persisted list have the same front: a generated card whose front
\* is already stored, or occurs earlier in the same batch, adds no record.
C12_UniqueFronts ==
    \A i, j \in DOMAIN flashcard_file.cards :
        LET a == flashcard_file.cards[i]
            b == flashcard_file.cards[j]
        IN  (i # j /\ "front" \in DOMAIN a /\ "front" \in DOMAIN b)
            => a.front # b.front

-----------------------------------------------------------------------------
(* Properties of the flashcard review: frame, legacy records, ease factor *)

ListBefore == last_review.before
ListAfter == LoadFlashcards(flashcard_file)
Matches(card, question) == "front" \in DOMAIN card /\ card.front = question
ChangedRecords == {i \in DOMAIN ListBefore : ListAfter[i] # ListBefore[i]}
SM2Fields == {"repetition", "interval", "ease_factor", "next_review"}

\* C13: a review request changes at most one stored record.  With no record
\* whose front is the question the persisted list is as before; otherwise
\* only the first matching record changes, only in repetition, interval,
\* ease_factor and next_review, and the other records and the order stay.
C13_ReviewFrame ==
    last_review.status # "none"
    => /\ Len(ListAfter) = Len(ListBefore)
       /\ Cardinality(ChangedRecords) <= 1
       /\ (\A i \in DOMAIN ListBefore : ~Matches(ListBefore[i], last_review.question))
            => ListAfter = ListBefore
       /\ \A i \in ChangedRecords :
            /\ Matches(ListBefore[i], last_review.question)
            /\ \A j \in 1..(i - 1) : ~Matches(ListBefore[j], last_review.question)
            /\ DOMAIN ListAfter[i] = DOMAIN ListBefore[i] \cup SM2Fields
            /\ \A f \in DOMAIN ListBefore[i] \ SM2Fields :
                  ListAfter[i][f] = ListBefore[i][f]

\* Two stored records have the question as front; the first one changed and
\* the second did not.
C13_Witness ==
    /\ last_review.status = "ok"
    /\ Len(ListBefore) = 2
    /\ Matches(ListBefore[1], last_review.question)
    /\ Matches(ListBefore[2], last_review.question)
    /\ ChangedRecords = {1}
    /\ ListAfter[1].front = ListBefore[1].front
    /\ ListAfter[1].back = ListBefore[1].back
    /\ ListAfter[2] = ListBefore[2]

\* The record the defaults of card.get() stand for.
Populated(card) ==
    [repetition |-> Get(card, "repetition", 0),
     interval |-> Get(card, "interval", 1),
     ease_factor |-> Get(card, "ease_factor", 250)]

SM2Of(card) ==
    [repetition |-> card.repetition, interval |-> card.interval,
     ease_factor |-> card.ease_factor]

\* C14: a review never fails on a partially populated stored record,
\* whatever fields the records of the list lack, and a matching record that
\* lacks repetition, interval or ease_factor is updated as the record with
\* 0, 1 and 2.5 in their place would be.
C14_ReviewNeverFails ==
    /\ last_review.status # "key_error"
    /\ ReviewApplied
         => SM2Of(CardAfter) \in
              {SM2Of(c) : c \in Reviewed(Populated(CardBefore),
                                         last_review.difficulty, last_review.at)}

\* The change of the ease factor each difficulty stands for, in hundredths.
EaseDelta(difficulty) ==
    CASE difficulty = "Easy" -> 10
      [] difficulty = "Medium" -> -14
      [] difficulty = "Hard" -> -54

-----------------------------------------------------------------------------
(* Properties of structured generation *)

\* The text holds no JSON value where the parser looks for one.
Unparseable(text, openers) == ~Extracted(text, openers).ok

-----------------------------------------------------------------------------
(* Properties of the pool with several calls in flight *)

\* C16: activation and invocation of one attempt are not one atomic step:
\* every invocation runs under the credential that is globally active when
\* it runs, whichever call activated it, so a call that activated credential
\* A can have its invocation run while B, activated by a second call in
\* between, is the active one.
C16_InvocationUnderActiveKey ==
    [][\A c \in Calls :
         Len(pool_calls'[c].log) > Len(pool_calls[c].log)
         => pool_calls'[c].log[Len(pool_calls'[c].log)].key = active_key]_vars

\* Call a activated the credential at position 0; call b then activated the
\* one at position 1; a's invocation ran under b's credential.
C16_Witness ==
    \E a, b \in Calls :
        /\ a # b
        /\ NumKeys >= 2
        /\ Len(pool_calls[a].log) = 1
        /\ pool_calls[a].log[1].idx = 0
        /\ pool_calls[a].log[1].key = model_pool[2].key
        /\ model_pool[2].key # model_pool[1].key
        /\ pool_calls[b].pc = "invoke"
        /\ pool_calls[b].idx = 1
        /\ active_key = model_pool[2].key

\* C17: in every interleaving a call attempts each credential at most once,
\* in the rotation that starts at the current_index it saw at its start, and
\* raises the exhaustion error only after each of the N credentials has
\* failed transiently for it.
C17_FixedRotation ==
    \A c \in DOMAIN pool_calls :
        LET me == pool_calls[c]
        IN  /\ \A i \in DOMAIN me.log :
                  me.log[i].idx = (me.started + i - 1) % NumKeys
            /\ \A i, j \in DOMAIN me.log : i # j => me.log[i].idx # me.log[j].idx
            /\ me.result.kind = "exhausted"
                 => \A p \in Positions :
                       \E i \in DOMAIN me.log :
                           /\ me.log[i].idx = p
                           /\ FailsTransiently(me.log[i].out)

-----------------------------------------------------------------------------
(* Sticky affinity over a sequence of calls, one at a time *)

\* C18: over calls that do not overlap, the first attempt of every call
\* uses the credential at current_index; current_index is 0 until a call
\* succeeds on another credential and then is that credential; and a
\* credential other than the one at current_index is attempted only after
\* the one at current_index, and every credential attempted since, has
\* failed transiently in the same call.
C18_StickyAffinity ==
    [][/\ current_index' # current_index
            => /\ pc = "invoke"
               /\ health[idx].ok
               /\ current_index' = idx
               /\ result' = Returned(idx)
       /\ Len(log') > Len(log)
            => LET e == log'[Len(log')]
               IN  /\ Len(log) = 0 => e.idx = current_index
                   /\ e.idx # current_index
                        => /\ Len(log) > 0
                           /\ log[1].idx = current_index
                           /\ \A i \in DOMAIN log : FailsTransiently(log[i].out)]_vars

\* A call that began with current_index = 1, left there by an earlier call,
\* tried position 1 first and moved on to position 2 when it failed.
C18_Witness ==
    /\ AsyncDone
    /\ NumKeys = 3
    /\ start = 1
    /\ Len(log) = 2
    /\ log[1].idx = 1
    /\ FailsTransiently(log[1].out)
    /\ log[2].idx = 2
    /\ log[2].out.ok
    /\ current_index = 2

-----------------------------------------------------------------------------
(* Properties of reviews in flight at the same time *)

\* Reviews v and w are done, matched different records, and had both loaded
\* the list before either saved.
Overlapped(v, w) ==
    /\ v # w
    /\ workers[v].pc = "done" /\ workers[v].status = "ok"
    /\ workers[w].pc = "done" /\ workers[w].status = "ok"
    /\ workers[v].cards = workers[w].cards
    /\ FirstMatch(workers[v].cards, workers[v].question, 1) > 0
    /\ FirstMatch(workers[w].cards, workers[w].question, 1) > 0
    /\ FirstMatch(workers[v].cards, workers[v].question, 1)
         # FirstMatch(workers[w].cards, workers[w].question, 1)

\* C19: two reviews of two different stored cards that are in flight at the
\* same time can lose an update: a review saves the whole list as it loaded
\* it, changed in its own record only, so whatever another review saved
\* between this one's load and save is overwritten, and the persisted list
\* holds the update of only one of the two cards.
C19_LostUpdate ==
    [][\A w \in DOMAIN workers :
         (workers[w].pc = "loaded" /\ workers'[w].status = "ok")
         => LET loaded == workers[w].cards
                pos == FirstMatch(loaded, workers[w].question, 1)
            IN  /\ Len(flashcard_file'.cards) = Len(loaded)
                /\ \A i \in DOMAIN loaded :
                      i # pos => flashcard_file'.cards[i] = loaded[i]]_vars

\* A server review of Q1 and an app review of Q2 overlapped; the file holds
\* the SM-2 update of Q1 and Q2 as it was.
C19_Witness ==
    \E v, w \in DOMAIN workers :
        /\ Overlapped(v, w)
        /\ workers[v].impl = "server" /\ workers[v].question = "Q1"
        /\ workers[v].difficulty = "Easy"
        /\ workers[w].impl = "app" /\ workers[w].question = "Q2"
        /\ workers[w].difficulty = "Easy"
        /\ workers[v].cards = <<Card("Q1", 0, 1, 250), Card("Q2", 1, 1, 260)>>
        /\ workers[w].saved[2] # workers[w].cards[2]
        /\ Has(flashcard_file.cards[1], 1, 1, 260)
        /\ flashcard_file.cards[2] = Card("Q2", 1, 1, 260)

-----------------------------------------------------------------------------
(* Repetition count *)

\* C21: a review leaves the matched card's repetition at 0 only when the
\* difficulty is Hard; after a Medium or Easy review repetition is the
\* repetition before the review plus 1, so at least 1; and repetition goes
\* down only by a Hard review, which sets it to 0.
C21_RepetitionReset ==
    ReviewApplied
    => LET before == Get(CardBefore, "repetition", 0)
       IN  /\ CardAfter.repetition = 0 => last_review.difficulty = "Hard"
           /\ last_review.difficulty \in {"Medium", "Easy"}
                => (CardAfter.repetition = before + 1 /\ CardAfter.repetition >= 1)
           /\ CardAfter.repetition < before
                => (last_review.difficulty = "Hard" /\ CardAfter.repetition = 0)

\* A Medium review took a card from repetition 3 to 4.
C21_Witness ==
    /\ ReviewApplied
    /\ last_review.difficulty = "Medium"
    /\ Has(CardBefore, 3, 5, 250)
    /\ CardAfter.repetition = 4

-----------------------------------------------------------------------------
(* Neighbour indices and HyDE *)

\* C22 (as claimed): whatever row of neighbour indices the vector search
\* returns, -1 padding and indices at or beyond the number of chunks
\* included, retrieve_context completes without an error and the candidates
\* it keeps are exactly the returned indices i with 0 <= i < len(chunks),
\* in the order returned.
C22_NeighbourIndices ==
    (Retrieved /\ rq.nb # <<>> /\ SearchCalls # {})
    => /\ ret.status = "ok"
       /\ ret.cands = VectorOrder

GenCalls == {i \in DOMAIN ret.calls : ret.calls[i].op = "generate"}
EmbedCalls == {i \in DOMAIN ret.calls : ret.calls[i].op = "embed"}
RerankCalls == {i \in DOMAIN ret.calls : ret.calls[i].op = "rerank"}

\* C23: a retrieval that reaches the vector search with use_hyde set has
\* made exactly one generation request, for the HyDE prompt, before the
\* search, and embeds the generated text; its reranker, when it runs, is
\* given the request's own query.  With use_hyde unset no generation request
\* is made and the request's own query is embedded.
C23_HydeQuery ==
    (Retrieved /\ SearchCalls # {})
    => /\ Cardinality(EmbedCalls) = 1
       /\ \A e \in EmbedCalls : \A s \in SearchCalls : e < s
       /\ rq.use_hyde
            => /\ Cardinality(GenCalls) = 1
               /\ \A g \in GenCalls :
                    /\ ret.calls[g] = GenCall(HydePrompt(rq.query))
                    /\ \A e \in EmbedCalls : g < e
               /\ \A e \in EmbedCalls : ret.calls[e].text = rq.hout.text
       /\ ~rq.use_hyde
            => /\ GenCalls = {}
               /\ \A e \in EmbedCalls : ret.calls[e].text = <<rq.query>>
       /\ \A r \in RerankCalls : ret.calls[r].text = <<rq.query>>

\* The server answered a HyDE retrieval with reranking: one generation, the
\* generated paragraph embedded, the question given to the reranker.
C23_Witness ==
    /\ Retrieved
    /\ rq.impl = "server"
    /\ rq.use_hyde /\ rq.use_rerank
    /\ rq.query = "Q1"
    /\ ret.status = "ok"
    /\ Len(ret.calls) = 4
    /\ ret.calls[1] = GenCall(HydePrompt("Q1"))
    /\ ret.calls[2] = EmbedCall(HydeText)
    /\ ret.calls[4].op = "rerank" /\ ret.calls[4].text = <<"Q1">>

-----------------------------------------------------------------------------
(* Frame of current_index *)

\* C24: current_index is always a position of the key list; while a generate
\* call is running it is the value the call started with; and when the call
\* has ended it differs from that value only if the call succeeded on
\* another credential, and then it is that credential's position.  A success
\* on the first attempt, exhaustion of the pool, an abort on a
\* non-recoverable error and the sync wrapper's single attempt leave it as
\* it was.
C24_CurrentIndexFrame ==
    /\ current_index \in Positions
    /\ pc \in {"loop", "invoke"} => current_index = start
    /\ pc = "done"
         => IF result.kind = "ok" /\ result.from # start
            THEN current_index = result.from
            ELSE current_index = start

\* A call that started at position 2 of three wrapped round to position 0,
\* succeeded there, and current_index is 0.
C24_Witness ==
    /\ AsyncDone
    /\ NumKeys = 3
    /\ start = 2
    /\ Len(log) = 2
    /\ FailsTransiently(log[1].out)
    /\ result = Returned(0)
    /\ current_index = 0

-----------------------------------------------------------------------------
(* Next review date *)

\* C25 (as claimed): on both review paths, the server's endpoint and the
\* app's update_card_mastery, a finished review has set the matched card's
\* next_review to the review time plus the card's updated interval in days;
\* in particular to one day after the review when the difficulty is Hard.
C25_NextReviewDate ==
    \A w \in Workers :
        LET me == workers[w]
            pos == FirstMatch(me.cards, me.question, 1)
        IN  (/\ me.pc = "done"
             /\ me.status = "ok"
             /\ pos >= 1
             /\ me.difficulty \in {"Hard", "Medium", "Easy"})
            => LET c == me.saved[pos]
               IN  /\ c.next_review = now + Get(c, "interval", 1)
                   /\ me.difficulty = "Hard" => c.next_review = now + 1

-----------------------------------------------------------------------------
(* Generated cards in the persisted list *)

\* C26 (as claimed): after a flashcard generation has completed, every
\* generated card whose front was not stored before is in the persisted
\* list with repetition = 0, interval = 1, ease_factor = 2.5 and next_review
\* equal to the generation time.
C26_GeneratedCardsStored ==
    last_save.status = "ok"
    => \A i \in DOMAIN last_save.new_cards :
          \E j \in DOMAIN flashcard_file.cards :
             LET c == flashcard_file.cards[j]
             IN  /\ Matches(c, last_save.new_cards[i].front)
                 /\ {"repetition", "interval", "ease_factor"} \subseteq DOMAIN c
                 /\ c.repetition = 0
                 /\ c.interval = 1
                 /\ c.ease_factor = 250
                 /\ c.next_review = now

-----------------------------------------------------------------------------
(* The two retrieve_context implementations side by side *)

ServerAnswer ==
    ServerRetrieveContext(rq.query, rq.top_k, rq.use_hyde, rq.use_rerank,
                          rq.hout, rq.nb, rq.sc)
AppAnswer ==
    AppRetrieveContext(rq.query, rq.top_k, rq.use_hyde, rq.use_rerank,
                       rq.hout, rq.nb, rq.sc)

\* C27 (as claimed): on the same index, chunk list, query, top_k, use_hyde,
\* use_rerank, generated text, neighbour row and rerank scores, server.py's
\* and app.py's retrieve_context ask the index for the same number of
\* neighbours and return the same labeled context, the same source map (keys
\* and values) and the same raw list, or both fail.
C27_SameRetrieval ==
    Retrieved
    => /\ ServerFetchK(rq.top_k, rq.use_rerank) = AppFetchK(rq.top_k, rq.use_rerank)
       /\ \/ /\ ServerAnswer.status = "ok"
             /\ AppAnswer.status = "ok"
             /\ ServerAnswer.ctx = AppAnswer.ctx
             /\ ServerAnswer.source_map = AppAnswer.source_map
             /\ ServerAnswer.raw = AppAnswer.raw
          \/ /\ ServerAnswer.status # "ok"
             /\ AppAnswer.status # "ok"

-----------------------------------------------------------------------------
(* The pool against the key list *)

\* C28 (as claimed): after construction, also when model initialisation
\* failed for some key, the pool has one entry per configured key in key
\* order, so the position a generate call computes selects an existing
\* entry, and the credential it activates is the key configured at that
\* position.
C28_PoolMatchesKeys ==
    /\ Len(model_pool) = NumKeys
    /\ \A i \in Positions : model_pool[i + 1].key = api_keys[i + 1]
    /\ result.kind # "index_error"
    /\ pc = "invoke" => active_key = api_keys[idx + 1]

=============================================================================
